---- MODULE Spec2Model ----
(***************************************************************************)
(* Reminder scheduling and push delivery of the Daylock backend:           *)
(*   src/src/cron/reminderCron.js      checkAndSendReminders, clearDailyLog *)
(*                                     parseTimeInTimezone, firedToday      *)
(*   src/unnamed/part_011              pushService.sendToUser / RoomReminder*)
(*   src/src/services/notificationsService.js   savePushSubscription       *)
(*                                                                         *)
(* Instants are milliseconds since 00:00 UTC of day 0.  A Date is its      *)
(* getTime() value.  A TIME string "HH:MM:SS" is the sequence of its       *)
(* fields after split(':').map(Number); null / "" is the empty sequence.   *)
(* An async function is cut at its awaits: one action runs from one await  *)
(* to the next, as one turn of the event loop does.                        *)
(***************************************************************************)
EXTENDS Integers, Sequences, FiniteSets, TLC

\* ------------------------------------------------------------------ bounds
\* Number of cron invocations of checkAndSendReminders in one behaviour.
MaxTicks == 2
\* Number of rows the reminder query returns.
MaxRows == 2
\* Number of client re-registrations (savePushSubscription) in one behaviour.
MaxSaves == 1
\* Number of POST /push/test requests in one behaviour.
MaxPushTests == 2
\* Number of ticks in a behaviour of SpecTime.
MaxTimeTicks == 1
\* Number of restarts of the process, and of ticks, in a behaviour of
\* SpecRestart.
MaxRestarts == 1
MaxRestartTicks == 3

\* the longest user id list given to sendToUsers
MaxBatchUsers == 11

\* setForRoom calls in a behaviour
MaxSetCalls == 2

\* ------------------------------------------------------------------ time
SecondMs == 1000
MinuteMs == 60 * SecondMs
HourMs == 60 * MinuteMs
DayMs == 24 * HourMs

\* `60 * 1000`: the width of the firing window (reminderCron.js line 130)
WindowMs == 60 * 1000

\* IANA zones of the model and their UTC offset in minutes at an instant.
\* "Nowhere/Place" is not an IANA identifier: Intl.DateTimeFormat throws.
ValidZones == {"UTC", "Asia/Kolkata", "America/New_York"}

\* Day 1 is the day New York moves its clocks forward: 02:00 EST (07:00 UTC)
\* becomes 03:00 EDT.
DstStart == DayMs + 7 * HourMs

TzOffsetMin(zone, instant) ==
    CASE zone = "UTC" -> 0
      [] zone = "Asia/Kolkata" -> 330
      [] zone = "America/New_York" -> IF instant < DstStart THEN 0 - 300 ELSE 0 - 240
      [] OTHER -> 0

TzOffsetMs(zone, instant) == TzOffsetMin(zone, instant) * MinuteMs

\* floor division (instants before day 0 do not occur, \div floors anyway)
DayOf(t) == t \div DayMs

\* now.toISOString().slice(0, 10): the UTC calendar date, as a day number
TodayStr(now) == DayOf(now)

\* variant: the UTC date instead of the zone's
TzDate_Utc(zone, now) == DayOf(now)

\* Intl.DateTimeFormat({timeZone}).formatToParts(now): the zone's civil date
TzDate(zone, now) == DayOf(now + TzOffsetMs(zone, now))

\* new Date(`${y}-${m}-${d}T${HH}:${MM}:00` + 'Z'): the civil date-time read
\* as if it were UTC.  The seconds field is the literal ":00".
TempDate(date, hours, minutes) == date * DayMs + hours * HourMs + minutes * MinuteMs

\* Is `${date}T${HH}:${MM}:00Z` a date-time string new Date() accepts?
\* (24:00:00 is the end of the day; anything else out of range gives an
\* Invalid Date, whose getTime() is NaN.)
IsoValid(hours, minutes) ==
    \/ hours \in 0 .. 23 /\ minutes \in 0 .. 59
    \/ hours = 24 /\ minutes = 0

\* What parseTimeInTimezone hands back: null, an Invalid Date or a Date; and
\* whether it called console.warn on the way.
Null == [isNull |-> TRUE, invalid |-> FALSE, time |-> 0, warned |-> FALSE]
InvalidDate == [isNull |-> FALSE, invalid |-> TRUE, time |-> 0, warned |-> FALSE]
DateAt(t) == [isNull |-> FALSE, invalid |-> FALSE, time |-> t, warned |-> FALSE]

\* Number(field) of a field that is not a numeral ("ab"); Number("") is 0
NaN == 0 - 1

\* parts[k] || 0: undefined and NaN both give 0
FieldOrZero(parts, k) == IF Len(parts) >= k /\ parts[k] # NaN THEN parts[k] ELSE 0

\* variant: the server-local time read as UTC
Fallback_Utc(hours, minutes, clk, srvZone) ==
    DayOf(clk) * DayMs + hours * HourMs + minutes * MinuteMs

\* fallback = new Date(); fallback.setHours(hours, minutes, 0, 0): the time of
\* day on the server's wall clock, on the server's current date
Fallback(hours, minutes, clk, srvZone) ==
    LET srvDate == DayOf(clk + TzOffsetMs(srvZone, clk))
    IN srvDate * DayMs + hours * HourMs + minutes * MinuteMs
         - TzOffsetMs(srvZone, clk)

\* parseTimeInTimezone(timeStr, timezone), with the two things it reads from
\* its environment made explicit: `clk` is its own `new Date()` and
\* `srvZone` the zone of the server process (setHours works in it).
ParseTimeInTimezone(timeStr, timezone, clk, srvZone) ==
    IF timeStr = << >> THEN Null
    ELSE
      LET hours == FieldOrZero(timeStr, 1)
          minutes == FieldOrZero(timeStr, 2)
      IN IF timezone \in ValidZones
         THEN IF ~IsoValid(hours, minutes) THEN InvalidDate
              ELSE
              LET tempDate == TempDate(TzDate(timezone, clk), hours, minutes)
                  \* tzDate.getTime() - utcDate.getTime(): both strings are
                  \* tempDate's wall clock, one in the zone, one in UTC
                  offsetMs == TzOffsetMs(timezone, tempDate)
              IN DateAt(tempDate - offsetMs)
         ELSE \* new Intl.DateTimeFormat throws a RangeError: the catch
              [DateAt(Fallback(hours, minutes, clk, srvZone)) EXCEPT !.warned = TRUE]

\* ------------------------------------------------------------- the store
\* u1 owns two subscriptions and no reminder, u2 one subscription, u3 none
Users == {"u1", "u2", "u3"}

\* rooms(id, name, emoji, time_start, time_end): time_start per room id
RoomTimeStart(room) ==
    CASE room = "roomA" -> <<0, 1, 0>>       \* "00:01:00"
      [] room = "roomK" -> <<5, 31, 0>>      \* "05:31:00"
      [] room = "roomD" -> <<9, 0, 0>>       \* "09:00:00"
      [] room = "roomM" -> <<0, 10, 0>>      \* "00:10:00"
      [] room = "roomE" -> <<3, 0, 0>>       \* "03:00:00"
      [] room = "roomS" -> <<0, 1, 30>>      \* "00:01:30"
      [] room = "roomY" -> <<3, 30, 0>>      \* "03:30:00"
      [] room = "roomL" -> <<23, 59, 0>>     \* "23:59:00"
      [] room = "roomX" -> <<NaN, NaN>>      \* "ab:cd"
      [] room = "roomH" -> <<25, 0, 0>>      \* "25:00:00"
      [] OTHER -> << >>                      \* time_start is null

\* reminder.rooms is null when the join finds no room
RoomJoined(room) == room # "roomGone"

Row(u, r, m, z) == [user_id |-> u, room_id |-> r, minutes_before |-> m, timezone |-> z]

\* enabled room_reminders rows a query may return ("" is an absent timezone)
RowPool ==
    { Row("u2", "roomA", 1, "UTC"),
      Row("u2", "roomA", 0, "UTC"),
      Row("u3", "roomK", 1, "Asia/Kolkata"),
      Row("u3", "roomN", 1, "UTC") }

\* zones the server process may run in
ServerZones == {"UTC", "Asia/Kolkata"}

\* push_subscriptions rows and their owners
Endpoints == {"e1", "e2", "e3"}
Owner(e) == IF e = "e3" THEN "u2" ELSE "u1"

\* statusCode of webpush.sendNotification: 201 resolves, the others reject
StatusCodes == {201, 404, 410, 500}

\* outcome of one call on the store client: data, { error }, or a throw
StoreOutcomes == {"ok", "error", "throws"}

\* ------------------------------------------------- checkAndSendReminders
\* variant: the stored zone without the default
UserTz_Raw(row) == row.timezone

\* reminder.timezone || 'UTC'
UserTz(row) == IF row.timezone = "" THEN "UTC" ELSE row.timezone

\* new Date(roomOpens.getTime() - reminder.minutes_before * 60 * 1000)
ReminderTime(roomOpens, minutesBefore) == roomOpens - minutesBefore * 60 * 1000

\* variant: the window closed at its upper end
IsInWindow_Closed(diffMs) == diffMs >= 0 /\ diffMs <= WindowMs

\* diffMs >= 0 && diffMs < 60 * 1000
IsInWindow(diffMs) == diffMs >= 0 /\ diffMs < WindowMs

\* `${user_id}-${room_id}-${minutes_before}-${todayStr}`; the ids are
\* fixed-length uuids, so the joined string determines its four parts
DedupKey(row, todayStr) ==
    <<row.user_id, row.room_id, row.minutes_before, todayStr>>

\* variant: the ledger is never consulted
AlreadyFired_Never(fired, key) == FALSE

\* firedToday.has(dedupKey)
AlreadyFired(fired, key) == key \in fired

\* !room || !room.time_start
NoRoomOrTime(row) ==
    ~RoomJoined(row.room_id) \/ RoomTimeStart(row.room_id) = << >>

\* variant: neither `continue` is taken
Skips_Never(noRoomOrTime, isNull) == FALSE

\* the two `continue`s of lines 118 and 123
Skips(noRoomOrTime, isNull) == noRoomOrTime \/ isNull

\* the synchronous head of one loop iteration, lines 117-132; `nan` says that
\* roomOpens is an Invalid Date, which makes diffMs NaN and the window test
\* false
RowEval(row, now, clk, srvZone) ==
    LET timeStart == RoomTimeStart(row.room_id)
        roomOpens == ParseTimeInTimezone(timeStart, UserTz(row), clk, srvZone)
    IN IF Skips(NoRoomOrTime(row), roomOpens.isNull)
       THEN [skipped |-> TRUE, nan |-> FALSE, warned |-> FALSE, clk |-> clk,
             roomOpens |-> 0, diffMs |-> 0, inWindow |-> FALSE]
       ELSE IF roomOpens.invalid
       THEN [skipped |-> FALSE, nan |-> TRUE, warned |-> roomOpens.warned,
             clk |-> clk, roomOpens |-> 0, diffMs |-> 0, inWindow |-> FALSE]
       ELSE LET diffMs == now - ReminderTime(roomOpens.time, row.minutes_before)
            IN [skipped |-> FALSE, nan |-> FALSE, warned |-> roomOpens.warned,
                clk |-> clk, roomOpens |-> roomOpens.time,
                diffMs |-> diffMs, inWindow |-> IsInWindow(diffMs)]

\* does the iteration reach `await pushService.sendRoomReminder(...)`?
ReachesSend(row, now, clk, srvZone, fired) ==
    LET ev == RowEval(row, now, clk, srvZone)
    IN /\ ~ev.skipped
       /\ ev.inWindow
       /\ ~AlreadyFired(fired, DedupKey(row, TodayStr(now)))

\* the for loop run from row i to its next await: the index of the first row
\* that reaches sendRoomReminder, Len(rows) + 1 when the loop ends
RECURSIVE ScanFrom(_, _, _, _, _, _)
ScanFrom(rows, i, now, clk, srvZone, fired) ==
    IF i > Len(rows) THEN i
    ELSE IF ReachesSend(rows[i], now, clk, srvZone, fired) THEN i
    ELSE ScanFrom(rows, i + 1, now, clk, srvZone, fired)

Min(a, b) == IF a < b THEN a ELSE b

\* what the iterations i..j computed (kept to state the window claims)
EvalsOf(rows, i, j, now, clk, srvZone) ==
    { [idx |-> k, ev |-> RowEval(rows[k], now, clk, srvZone)] :
        k \in i .. Min(j, Len(rows)) }

\* variant: a record for every settled call
ShouldRecord_Always(result) == result.sent >= 0

\* if (result.sent > 0)
ShouldRecord(result) == result.sent > 0

\* variant: the add after a settled call is left out
MarkFired_Skip(fired, key) == fired

\* firedToday.add(dedupKey)
MarkFired(fired, key) == fired \cup {key}

\* variant: the catch block leaves the ledger alone
CatchMarkFired_Forgotten(fired, key) == fired

\* catch (err) { firedToday.add(dedupKey) ... }
CatchMarkFired(fired, key) == MarkFired(fired, key)

\* variant: a caught failure ends the loop
ResumeAfterCatch_Abort(i, n) == n + 1

\* the catch of lines 164-168 is inside the loop body: the loop goes on with
\* the next of its n rows
ResumeAfterCatch(i, n) == i + 1

\* variant: the reset leaves the ledger as it is
ClearLedger_Keep(fired) == fired

\* firedToday.clear()
ClearLedger(fired) == {}

\* variant: the `error` of the reply is not looked at
FetchAborts_OnlyThrow(outcome) == outcome = "throws"

\* if (error) return, and the outer catch
FetchAborts(outcome) == outcome # "ok"

\* ------------------------------------------------- pushService.sendToUser
\* String(d) of one decimal digit
DigitChar(d) ==
    CASE d = 0 -> "0" [] d = 1 -> "1" [] d = 2 -> "2" [] d = 3 -> "3"
      [] d = 4 -> "4" [] d = 5 -> "5" [] d = 6 -> "6" [] d = 7 -> "7"
      [] d = 8 -> "8" [] OTHER -> "9"

\* `${n}` of a non-negative integer: its decimal digits
RECURSIVE Decimal(_)
Decimal(n) ==
    IF n < 10 THEN <<DigitChar(n)>>
    ELSE Append(Decimal(n \div 10), DigitChar(n % 10))

\* variant: the tag without the offset
RoomReminderTag_RoomOnly(roomId, minutesBefore) ==
    <<"room-reminder-", roomId>>

\* sendRoomReminder: tag: `room-reminder-${room.id}-${minutesBefore}`, as the
\* sequence of its pieces; a room id is one piece (a uuid, of fixed length)
RoomReminderTag(roomId, minutesBefore) ==
    <<"room-reminder-", roomId, "-">> \o Decimal(minutesBefore)

\* variant: the query without .eq('active', true)
FetchActive_All(user, act) == { e \in Endpoints : Owner(e) = user }

\* .from('push_subscriptions').select('*').eq('user_id', userId).eq('active', true)
FetchActive(user, act) == { e \in Endpoints : Owner(e) = user /\ act[e] }

\* variant: the deliveries stop at the first subscription
StartDeliveries_FirstOnly(subs) ==
    IF subs = {} THEN {} ELSE { CHOOSE e \in subs : TRUE }

\* subscriptions.map(async (sub) => ...): every callback runs to its await
StartDeliveries(subs) == subs

\* variant: 404 is not taken as gone
IsGone_Only410(statusCode) == statusCode = 410

\* err.statusCode === 410 || err.statusCode === 404
IsGone(statusCode) == statusCode = 410 \/ statusCode = 404

\* variant: only the failures that are not Gone are counted
CountFailed_TransientOnly(failed, statusCode) ==
    IF statusCode = 410 \/ statusCode = 404 THEN failed ELSE failed + 1

\* catch (err) { failed++ ... }
CountFailed(failed, statusCode) == failed + 1

\* variant: Promise.all, which rejects with the first rejected callback
AllSettledRejects_LikePromiseAll(rejected) == rejected # {}

\* await Promise.allSettled(...) resolves whatever the callbacks did
AllSettledRejects(rejected) == FALSE

\* ------------------------------------------------ pushService.sendToUsers
\* const batchSize = 10
BatchSize == 10

\* what the sendToUser call for a user settles with: its value
\* { sent, failed } or a rejection.  The users with an odd id have one
\* endpoint that accepts the message, the others one that refuses it.
CallOutcomes(uid) ==
    { [st |-> "fulfilled", sent |-> uid % 2, failed |-> 1 - (uid % 2)],
      [st |-> "rejected", sent |-> 0, failed |-> 0] }

\* a position of userIds: the number of sendToUser calls made for it and the
\* state of the last one
NotCalled == [n |-> 0, st |-> "none", sent |-> 0, failed |-> 0]

\* userIds.slice(i, i + batchSize), as positions of userIds
BatchSlice(i, len) == { k \in 1 .. len : i < k /\ k <= i + BatchSize }

\* batch.map(uid => this.sendToUser(uid, payload)): one call per position
StartBatch(calls, i) ==
    [k \in 1 .. Len(calls) |->
        IF k \in BatchSlice(i, Len(calls))
        THEN [calls[k] EXCEPT !.n = @ + 1, !.st = "inflight"]
        ELSE calls[k]]

\* variant: a rejected call is counted as one failure
Contribution_Rejected(call) ==
    IF call.st = "fulfilled" THEN [sent |-> call.sent, failed |-> call.failed]
    ELSE [sent |-> 0, failed |-> 1]

\* if (r.status === 'fulfilled') { totalSent += r.value.sent; ... }
Contribution(call) ==
    IF call.st = "fulfilled" THEN [sent |-> call.sent, failed |-> call.failed]
    ELSE [sent |-> 0, failed |-> 0]

\* results.forEach(...) over the positions lo .. hi
RECURSIVE SumSent(_, _, _)
SumSent(calls, lo, hi) ==
    IF lo > hi THEN 0 ELSE Contribution(calls[lo]).sent + SumSent(calls, lo + 1, hi)

RECURSIVE SumFailed(_, _, _)
SumFailed(calls, lo, hi) ==
    IF lo > hi THEN 0
    ELSE Contribution(calls[lo]).failed + SumFailed(calls, lo + 1, hi)

\* ------------------------------------------------ remindersService.setForRoom
\* .delete().eq('user_id', userId).eq('room_id', roomId)
DeleteRows(table, userId, roomId) ==
    [k \in DOMAIN table |-> IF k = <<userId, roomId>> THEN << >> ELSE table[k]]

\* .insert(minutesBefore.map(min => ({ user_id, room_id, minutes_before: min,
\* enabled: true }))): the rows of a pair are kept as their minutes_before
InsertRows(table, userId, roomId, minutesBefore) ==
    [table EXCEPT ![<<userId, roomId>>] = @ \o minutesBefore]

\* the bodies of PUT /api/reminders/room/:roomId
MinuteLists == { << >>, <<5>>, <<5, 15>> }

\* --------------------------------------------------------------- the state
VARIABLES
    clock,          \* the server's wall clock, ms
    serverTz,       \* zone of the server process
    pushEnabled,    \* config/webpush.js: are the VAPID keys set?
    restarts,       \* number of restarts of the process
    parked,         \* a second checkAndSendReminders call, suspended at an await
    batch,          \* the running sendToUsers call
    stored,         \* room_reminders: minutes_before of the rows per (user, room)
    setOp,          \* the running setForRoom call
    reminders,      \* enabled room_reminders rows joined with rooms (the store)
    active,         \* push_subscriptions.active per endpoint (the store)
    notifications,  \* notifications rows inserted, in order (the store)
    firedToday,     \* const firedToday = new Set()
    tick,           \* the running checkAndSendReminders call
    push,           \* the running sendToUser call
    evals,          \* history: loop iterations of the current / last tick
    attempts,       \* history: sendRoomReminder calls, in order
    epoch,          \* history: number of clearDailyLog runs
    resetDay,       \* server-local date of the last clearDailyLog run
    ticks,          \* number of ticks started
    saves,          \* number of savePushSubscription calls
    pushTests,      \* number of POST /push/test requests
    fetches         \* history: outcome of the reminder query of the last two ticks

vars == <<clock, serverTz, pushEnabled, restarts, parked, batch, stored, setOp,
          reminders, active, notifications, firedToday, tick,
          push, evals, attempts, epoch, resetDay, ticks, saves, pushTests, fetches>>

\* the locals of a checkAndSendReminders call; `att` is history, the index of
\* its running sendRoomReminder call in `attempts`
IdleTick ==
    [pc |-> "idle", rows |-> << >>, i |-> 0, now |-> 0, sentCount |-> 0, att |-> 0]

IdlePush ==
    [pc |-> "idle", user |-> "", subs |-> {}, inflight |-> {}, deact |-> {},
     sent |-> 0, failed |-> 0, rejected |-> {}, raised |-> FALSE,
     status |-> [e \in Endpoints |-> 0], contacted |-> [e \in Endpoints |-> 0],
     writeFailed |-> {}, resaved |-> {}]

\* variant: sendToUser without its pushEnabled test
CallSendToUser_Unguarded(user, enabled) ==
    [IdlePush EXCEPT !.pc = "fetching", !.user = user]

\* sendToUser(userId, payload) up to its first await, or to
\* `return { sent: 0, failed: 0 }` when push is disabled
CallSendToUser(user, enabled) ==
    IF ~enabled
    THEN [IdlePush EXCEPT !.pc = "returned", !.user = user]
    ELSE [IdlePush EXCEPT !.pc = "fetching", !.user = user]

\* sendToUsers(userIds, payload) up to its first await: the calls of the
\* first batch, or `return { sent: 0, failed: 0 }` at once (no call at all)
CallSendToUsers(userIds, enabled) ==
    IF ~enabled \/ userIds = {}
    THEN [returned |-> TRUE, sent |-> 0, failed |-> 0, calls |-> {}]
    ELSE [returned |-> FALSE, sent |-> 0, failed |-> 0,
          calls |-> { CallSendToUser(u, enabled) : u \in userIds }]

\* checkAndSendReminders() up to its first await, or to the `return` of line 95
CallCheckAndSendReminders(enabled) ==
    IF ~enabled THEN IdleTick ELSE [IdleTick EXCEPT !.pc = "fetching"]

\* variant: the jobs are scheduled whatever the configuration
CronScheduled_Always(enabled) == TRUE

\* startReminderCron: both jobs are scheduled iff pushEnabled
CronScheduled(enabled) == enabled

\* no second tick
IdleParked == [tick |-> IdleTick, push |-> IdlePush]

\* the locals of a sendToUsers call: the user ids, the start of the running
\* batch, the state of the sendToUser call per position, and the totals
IdleBatch ==
    [pc |-> "idle", userIds |-> << >>, i |-> 0, calls |-> << >>,
     totalSent |-> 0, totalFailed |-> 0, raised |-> FALSE]

\* the (user_id, room_id) pairs of room_reminders that setForRoom works on
ReminderKeys == {"u1", "u2"} \X {"roomA", "roomD"}

\* the locals of a setForRoom call; `before` is history, the table at the call
IdleSet ==
    [pc |-> "idle", user |-> "", room |-> "", minutesBefore |-> << >>,
     before |-> [k \in ReminderKeys |-> << >>], n |-> 0]

\* sequences over S of length 1..n
SeqsUpTo(S, n) == UNION { [1..k -> S] : k \in 1..n }

\* instants at which the clock is read: around 00:00 UTC of day 1, the ends
\* of the firing window of a reminder due at that instant
Midnight == DayMs
ClockPoints == { Midnight + d : d \in {0, WindowMs - 1, WindowMs} }
ClockStart == Midnight

\* The clock is read at line 111, at line 48 in every loop iteration and by
\* cron; time that passes between two reads passes at the later read.
Later(clk) == { t \in ClockPoints : t >= clk }

\* the process after startReminderCron, over a store holding one of
\* `rowLists` and every subscription active
InitBase(rowLists, zones, flags, start) ==
    /\ clock = start
    /\ serverTz \in zones
    /\ pushEnabled \in flags
    /\ restarts = 0
    /\ parked = IdleParked
    /\ batch = IdleBatch
    /\ stored = [k \in ReminderKeys |-> << >>]
    /\ setOp = IdleSet
    /\ reminders \in rowLists
    /\ active = [e \in Endpoints |-> TRUE]
    /\ notifications = << >>
    /\ firedToday = {}
    /\ tick = IdleTick
    /\ push = IdlePush
    /\ evals = {}
    /\ attempts = << >>
    /\ epoch = 0
    /\ resetDay = 0 - 1
    /\ ticks = 0
    /\ saves = 0
    /\ pushTests = 0
    /\ fetches = << >>

InitWith(rowLists, zones) == InitBase(rowLists, zones, {TRUE}, ClockStart)

Init == InitWith(SeqsUpTo(RowPool, MaxRows), ServerZones)

\* ------------------------------------------------------------ the actions
NewAttempt(row, now) ==
    [key |-> DedupKey(row, TodayStr(now)), now |-> now, epoch |-> epoch,
     done |-> FALSE, doneEpoch |-> 0, sent |-> 0, raised |-> FALSE,
     insert |-> "none", boot |-> restarts,
     tag |-> RoomReminderTag(row.room_id, row.minutes_before)]

\* The for loop resumed at row i0 of `base` (the tick's locals) with the ledger
\* `fired`: it runs to the next `await pushService.sendRoomReminder(...)`,
\* which runs sendToUser to its first await, or to the end of the function.
LoopFrom(base, i0, fired, att, seen, clk) ==
    LET j == ScanFrom(base.rows, i0, base.now, clk, serverTz, fired)
        done == EvalsOf(base.rows, i0, j, base.now, clk, serverTz)
    IN /\ evals' = seen \cup
                     { [row |-> base.rows[d.idx], now |-> base.now, ev |-> d.ev] : d \in done }
       /\ IF j <= Len(base.rows)
          THEN /\ tick' = [base EXCEPT !.pc = "sending", !.i = j,
                                       !.att = Len(att) + 1]
               /\ push' = CallSendToUser(base.rows[j].user_id, pushEnabled)
               /\ attempts' = Append(att, NewAttempt(base.rows[j], base.now))
          ELSE /\ tick' = IdleTick
               /\ push' = IdlePush
               /\ attempts' = att

LastTwo(q) == IF Len(q) > 2 THEN SubSeq(q, Len(q) - 1, Len(q)) ELSE q

\* cron.schedule('* * * * *', checkAndSendReminders): the call up to
\* `await supabaseAdmin.from('room_reminders').select(...)`
TickStart(limit) ==
    /\ CronScheduled(pushEnabled)
    /\ tick.pc = "idle"
    /\ push.pc = "idle"
    /\ ticks < limit
    /\ tick' = CallCheckAndSendReminders(pushEnabled)
    /\ ticks' = ticks + 1
    /\ evals' = {}
    /\ fetches' = LastTwo(Append(fetches, "pending"))
    /\ UNCHANGED <<clock, serverTz, pushEnabled, restarts, parked, batch, stored,
                   setOp, reminders, active, notifications, firedToday,
                   push, attempts, epoch, resetDay, saves, pushTests>>

\* the reminder query settles: lines 104-136 and on to the first await
TickFetched(outcome, t) ==
    /\ tick.pc = "fetching"
    /\ t >= clock
    /\ clock' = t
    /\ fetches' = [fetches EXCEPT ![Len(fetches)] =
                                  IF outcome = "ok" THEN "ok" ELSE "failed"]
    /\ IF FetchAborts(outcome) \/ Len(reminders) = 0
       THEN /\ tick' = IdleTick
            /\ UNCHANGED <<push, attempts, evals>>
       ELSE LoopFrom([IdleTick EXCEPT !.rows = reminders, !.i = 1, !.now = t],
                     1, firedToday, attempts, {}, t)
    /\ UNCHANGED <<serverTz, pushEnabled, restarts, parked, batch, stored, setOp,
                   reminders, active, notifications, firedToday,
                   epoch, resetDay, ticks, saves, pushTests>>

CloseAttempt(att, sent, raised) ==
    [att EXCEPT ![tick.att] =
        [@ EXCEPT !.done = TRUE, !.doneEpoch = epoch, !.sent = sent, !.raised = raised]]

\* sendRoomReminder settles: lines 146-151, or the catch of lines 164-168
TickAfterSend(t) ==
    /\ tick.pc = "sending"
    /\ push.pc = "returned"
    /\ t >= clock
    /\ clock' = t
    /\ LET row == tick.rows[tick.i]
           key == DedupKey(row, TodayStr(tick.now))
           result == [sent |-> push.sent, failed |-> push.failed]
           att == CloseAttempt(attempts, push.sent, push.raised)
       IN IF push.raised
          THEN /\ firedToday' = CatchMarkFired(firedToday, key)
               /\ LoopFrom(tick, ResumeAfterCatch(tick.i, Len(tick.rows)),
                           firedToday', att, evals, t)
          ELSE /\ firedToday' = MarkFired(firedToday, key)
               /\ IF ShouldRecord(result)
                  THEN /\ tick' = [tick EXCEPT !.pc = "inserting",
                                               !.sentCount = @ + 1]
                       /\ push' = IdlePush
                       /\ attempts' = att
                       /\ UNCHANGED evals
                  ELSE LoopFrom(tick, tick.i + 1, firedToday', att, evals, t)
    /\ UNCHANGED <<serverTz, pushEnabled, restarts, parked, batch, stored, setOp,
                   reminders, active, notifications, epoch,
                   resetDay, ticks, saves, pushTests, fetches>>

\* the record of lines 155-162 (key and attempt are history)
NotificationRecord(row, sent, key, n) ==
    [user_id |-> row.user_id, type |-> "room_opening", roomId |-> row.room_id,
     minutesBefore |-> row.minutes_before, push_sent |-> sent > 0,
     key |-> key, attempt |-> n]

\* `await supabaseAdmin.from('notifications').insert(...)` settles
TickInsertDone(outcome, t) ==
    /\ tick.pc = "inserting"
    /\ t >= clock
    /\ clock' = t
    /\ LET row == tick.rows[tick.i]
           key == DedupKey(row, TodayStr(tick.now))
           n == tick.att
           att == [attempts EXCEPT ![n].insert = outcome]
       IN /\ notifications' =
                IF outcome = "ok"
                THEN Append(notifications,
                            NotificationRecord(row, attempts[n].sent, key, n))
                ELSE notifications
          /\ firedToday' = IF outcome = "throws"
                           THEN CatchMarkFired(firedToday, key)
                           ELSE firedToday
          /\ LoopFrom(tick,
                      IF outcome = "throws"
                      THEN ResumeAfterCatch(tick.i, Len(tick.rows))
                      ELSE tick.i + 1,
                      firedToday', att, evals, t)
    /\ UNCHANGED <<serverTz, pushEnabled, restarts, parked, batch, stored, setOp,
                   reminders, active, epoch, resetDay, ticks,
                   saves, pushTests, fetches>>

\* the subscription query of sendToUser settles: lines 27-49
SubsFetched(outcome) ==
    /\ push.pc = "fetching"
    /\ LET subs == FetchActive(push.user, active)
           started == StartDeliveries(subs)
       IN push' =
            IF outcome = "throws"
            THEN [push EXCEPT !.pc = "returned", !.raised = TRUE]
            ELSE IF outcome = "error" \/ subs = {}
            THEN [push EXCEPT !.pc = "returned"]
            ELSE [push EXCEPT !.pc = "delivering", !.subs = subs,
                              !.inflight = started,
                              !.contacted = [e \in Endpoints |->
                                               IF e \in started THEN 1 ELSE 0]]
    /\ UNCHANGED <<clock, serverTz, pushEnabled, restarts, parked, batch, stored,
                   setOp, reminders, active, notifications, firedToday,
                   tick, evals, attempts, epoch, resetDay, ticks, saves, pushTests, fetches>>

\* webpush.sendNotification for one subscription settles: lines 50-58
Delivered(e, statusCode) ==
    /\ push.pc = "delivering"
    /\ e \in push.inflight
    /\ push' =
         IF statusCode = 201
         THEN [push EXCEPT !.inflight = @ \ {e}, !.sent = @ + 1,
                           !.status[e] = statusCode]
         ELSE [push EXCEPT !.inflight = @ \ {e},
                           !.failed = CountFailed(@, statusCode),
                           !.status[e] = statusCode,
                           !.deact = IF IsGone(statusCode) THEN @ \cup {e} ELSE @]
    /\ UNCHANGED <<clock, serverTz, pushEnabled, restarts, parked, batch, stored,
                   setOp, reminders, active, notifications, firedToday,
                   tick, evals, attempts, epoch, resetDay, ticks, saves, pushTests, fetches>>

\* `.update({ active: false }).eq('id', sub.id)` settles: the client returns
\* { error } on a failed write and the code ignores it; a throw rejects the
\* callback's promise
DeactivateDone(e, outcome) ==
    /\ push.pc = "delivering"
    /\ e \in push.deact
    /\ active' = IF outcome = "ok" THEN [active EXCEPT ![e] = FALSE] ELSE active
    /\ push' = [push EXCEPT !.deact = @ \ {e},
                            !.writeFailed = IF outcome = "ok" THEN @ ELSE @ \cup {e},
                            !.rejected = IF outcome = "throws" THEN @ \cup {e} ELSE @]
    /\ UNCHANGED <<clock, serverTz, pushEnabled, restarts, parked, batch, stored,
                   setOp, reminders, notifications, firedToday, tick,
                   evals, attempts, epoch, resetDay, ticks, saves, pushTests, fetches>>

\* Promise.allSettled settles and sendToUser returns { sent, failed }
SendToUserReturn ==
    /\ push.pc = "delivering"
    /\ push.inflight = {}
    /\ push.deact = {}
    /\ push' = [push EXCEPT !.pc = "returned",
                            !.raised = AllSettledRejects(push.rejected)]
    /\ UNCHANGED <<clock, serverTz, pushEnabled, restarts, parked, batch, stored,
                   setOp, reminders, active, notifications, firedToday,
                   tick, evals, attempts, epoch, resetDay, ticks, saves, pushTests, fetches>>

\* notificationsService.savePushSubscription: upsert on (user_id, endpoint).
\* (An upsert of a row that is active and that no running call has fetched
\* changes nothing the scheduler or the dispatcher reads.)
SavePushSubscription(e) ==
    /\ saves < MaxSaves
    /\ ~active[e] \/ e \in push.subs
    /\ saves' = saves + 1
    /\ active' = [active EXCEPT ![e] = TRUE]
    /\ push' = IF push.pc # "idle"
               THEN [push EXCEPT !.resaved = @ \cup {e}]
               ELSE push
    /\ UNCHANGED <<clock, serverTz, pushEnabled, restarts, parked, batch, stored,
                   setOp, reminders, notifications, firedToday, tick,
                   evals, attempts, epoch, resetDay, ticks, pushTests, fetches>>

\* server-local date and time of day
ServerDate(t) == DayOf(t + TzOffsetMs(serverTz, t))
ServerTimeOfDay(t) == (t + TzOffsetMs(serverTz, t)) % DayMs

\* cron.schedule('0 0 * * *', clearDailyLog): once, in the minute 00:00 of
\* the server's zone
ClearDailyLog(t) ==
    /\ CronScheduled(pushEnabled)
    /\ t >= clock
    /\ clock' = t
    /\ ServerTimeOfDay(t) < MinuteMs
    /\ resetDay # ServerDate(t)
    /\ resetDay' = ServerDate(t)
    /\ firedToday' = ClearLedger(firedToday)
    /\ epoch' = epoch + 1
    /\ UNCHANGED <<serverTz, pushEnabled, restarts, parked, batch, stored, setOp,
                   reminders, active, notifications, tick, push,
                   evals, attempts, ticks, saves, pushTests, fetches>>

\* Two checkAndSendReminders calls are in the process when cron starts a tick
\* while the tick before it is suspended at an await.  `tick` and `push` are
\* the call the event loop runs next, `parked` the other one; this step turns
\* to the other call.  Both work on the same firedToday and the same store.
SwitchTick ==
    /\ <<parked.tick, parked.push>> # <<tick, push>>
    /\ parked' = [tick |-> tick, push |-> push]
    /\ tick' = parked.tick
    /\ push' = parked.push
    /\ UNCHANGED <<clock, serverTz, pushEnabled, restarts, batch, stored, setOp,
                   reminders, active, notifications, firedToday, evals, attempts,
                   epoch, resetDay, ticks, saves, pushTests, fetches>>

\* The process is stopped and started again: the module state is built anew
\* (`const firedToday = new Set()`, line 23), every running call is gone, and
\* startReminderCron schedules the jobs again.  The store keeps its rows.
Restart ==
    /\ restarts < MaxRestarts
    /\ restarts' = restarts + 1
    /\ firedToday' = {}
    /\ tick' = IdleTick
    /\ push' = IdlePush
    /\ parked' = IdleParked
    /\ batch' = IdleBatch
    /\ setOp' = [IdleSet EXCEPT !.n = setOp.n]
    /\ UNCHANGED <<clock, serverTz, pushEnabled, stored, reminders, active,
                   notifications, evals, attempts, epoch, resetDay, ticks, saves,
                   pushTests, fetches>>

\* POST /api/notifications/push/test: the handler up to the first await of
\* `pushService.sendToUser(req.user.id, ...)`
PushTestStart(user) ==
    /\ tick.pc = "idle"
    /\ push.pc = "idle"
    /\ pushTests < MaxPushTests
    /\ pushTests' = pushTests + 1
    /\ push' = IF ~pushEnabled
               THEN push          \* res.status(503): sendToUser is not called
               ELSE CallSendToUser(user, pushEnabled)
    /\ UNCHANGED <<clock, serverTz, pushEnabled, restarts, parked, batch, stored,
                   setOp, reminders, active, notifications, firedToday,
                   tick, evals, attempts, epoch, resetDay, ticks, saves, fetches>>

\* sendToUser settles and the handler answers
PushTestDone ==
    /\ tick.pc = "idle"
    /\ push.pc = "returned"
    /\ push' = IdlePush
    /\ UNCHANGED <<clock, serverTz, pushEnabled, restarts, parked, batch, stored,
                   setOp, reminders, active, notifications, firedToday,
                   tick, evals, attempts, epoch, resetDay, ticks, saves, pushTests,
                   fetches>>

\* sendToUsers(userIds, payload) up to its first await: the guard of line 74,
\* then the calls of the first batch
SendToUsersStart(userIds) ==
    /\ batch.pc = "idle"
    /\ batch' =
         IF ~pushEnabled \/ Len(userIds) = 0
         THEN [IdleBatch EXCEPT !.pc = "returned", !.userIds = userIds,
                                !.calls = [k \in 1 .. Len(userIds) |-> NotCalled]]
         ELSE [IdleBatch EXCEPT !.pc = "awaiting", !.userIds = userIds,
                                !.calls = StartBatch(
                                    [k \in 1 .. Len(userIds) |-> NotCalled], 0)]
    /\ UNCHANGED <<clock, serverTz, pushEnabled, restarts, parked, stored, setOp,
                   reminders, active, notifications, firedToday, tick, push,
                   evals, attempts, epoch, resetDay, ticks, saves, pushTests,
                   fetches>>

\* one sendToUser call of the running batch settles
BatchCallSettles(k, outcome) ==
    /\ batch.pc = "awaiting"
    /\ k \in DOMAIN batch.calls
    /\ batch.calls[k].st = "inflight"
    /\ batch' = [batch EXCEPT !.calls[k] =
                     [n |-> @.n, st |-> outcome.st, sent |-> outcome.sent,
                      failed |-> outcome.failed]]
    /\ UNCHANGED <<clock, serverTz, pushEnabled, restarts, parked, stored, setOp,
                   reminders, active, notifications, firedToday, tick, push,
                   evals, attempts, epoch, resetDay, ticks, saves, pushTests,
                   fetches>>

\* `await Promise.allSettled(...)` resolves: results.forEach sums the batch,
\* then the loop starts the next batch or sendToUsers returns the totals
BatchSettled ==
    /\ batch.pc = "awaiting"
    /\ LET len == Len(batch.userIds)
           slice == BatchSlice(batch.i, len)
           hi == Min(batch.i + BatchSize, len)
           rejected == { k \in slice : batch.calls[k].st = "rejected" }
           summed == [batch EXCEPT
                         !.totalSent = @ + SumSent(batch.calls, batch.i + 1, hi),
                         !.totalFailed = @ + SumFailed(batch.calls, batch.i + 1, hi),
                         !.i = @ + BatchSize]
       IN  /\ \A k \in slice : batch.calls[k].st # "inflight"
           /\ batch' =
                IF AllSettledRejects(rejected)
                THEN [batch EXCEPT !.pc = "returned", !.raised = TRUE]
                ELSE IF summed.i < len
                THEN [summed EXCEPT !.calls = StartBatch(@, summed.i)]
                ELSE [summed EXCEPT !.pc = "returned"]
    /\ UNCHANGED <<clock, serverTz, pushEnabled, restarts, parked, stored, setOp,
                   reminders, active, notifications, firedToday, tick, push,
                   evals, attempts, epoch, resetDay, ticks, saves, pushTests,
                   fetches>>

\* PUT /api/reminders/room/:roomId: setForRoom(req.user.id, roomId,
\* minutesBefore) up to the await of its delete
SetForRoomStart(userId, roomId, minutesBefore) ==
    /\ setOp.pc \in {"idle", "returned", "raised"}
    /\ setOp.n < MaxSetCalls
    /\ setOp' = [pc |-> "deleting", user |-> userId, room |-> roomId,
                 minutesBefore |-> minutesBefore, before |-> stored,
                 n |-> setOp.n + 1]
    /\ UNCHANGED <<clock, serverTz, pushEnabled, restarts, parked, batch, stored,
                   reminders, active, notifications, firedToday, tick, push,
                   evals, attempts, epoch, resetDay, ticks, saves, pushTests,
                   fetches>>

\* the delete settles: `if (delError) throw delError`, `return []` for an
\* empty list, else up to the await of the insert
SetDeleteDone(o) ==
    /\ setOp.pc = "deleting"
    /\ IF o = "error"
       THEN /\ setOp' = [setOp EXCEPT !.pc = "raised"]
            /\ UNCHANGED stored
       ELSE /\ stored' = DeleteRows(stored, setOp.user, setOp.room)
            /\ setOp' = [setOp EXCEPT !.pc =
                             IF Len(setOp.minutesBefore) = 0 THEN "returned"
                             ELSE "inserting"]
    /\ UNCHANGED <<clock, serverTz, pushEnabled, restarts, parked, batch,
                   reminders, active, notifications, firedToday, tick, push,
                   evals, attempts, epoch, resetDay, ticks, saves, pushTests,
                   fetches>>

\* the insert settles: `if (error) throw error`, else `return data || []`
SetInsertDone(o) ==
    /\ setOp.pc = "inserting"
    /\ IF o = "error"
       THEN /\ setOp' = [setOp EXCEPT !.pc = "raised"]
            /\ UNCHANGED stored
       ELSE /\ stored' = InsertRows(stored, setOp.user, setOp.room,
                                    setOp.minutesBefore)
            /\ setOp' = [setOp EXCEPT !.pc = "returned"]
    /\ UNCHANGED <<clock, serverTz, pushEnabled, restarts, parked, batch,
                   reminders, active, notifications, firedToday, tick, push,
                   evals, attempts, epoch, resetDay, ticks, saves, pushTests,
                   fetches>>

\* ---------------------------------------------------- the specifications
\* Spec: the scheduler and the dispatcher it calls, ticks one after the other
\* at any of the instants of ClockPoints, the daily reset, and clients that
\* register again.
Next ==
    \/ TickStart(MaxTicks)
    \/ \E o \in StoreOutcomes, t \in Later(clock) : TickFetched(o, t)
    \/ \E t \in Later(clock) : TickAfterSend(t)
    \/ \E o \in StoreOutcomes, t \in Later(clock) : TickInsertDone(o, t)
    \/ \E o \in StoreOutcomes : SubsFetched(o)
    \/ \E e \in Endpoints, c \in StatusCodes : Delivered(e, c)
    \/ \E e \in Endpoints, o \in StoreOutcomes : DeactivateDone(e, o)
    \/ SendToUserReturn
    \/ \E e \in Endpoints : SavePushSubscription(e)
    \/ \E t \in Later(clock) : ClearDailyLog(t)

Spec == Init /\ [][Next]_vars

\* SpecPush: sendToUser called by the test route for any user, and clients
\* that register again.
InitPush == InitWith({<< >>}, {"UTC"})

NextPush ==
    \/ \E u \in Users : PushTestStart(u)
    \/ \E o \in StoreOutcomes : SubsFetched(o)
    \/ \E e \in Endpoints, c \in StatusCodes : Delivered(e, c)
    \/ \E e \in Endpoints, o \in StoreOutcomes : DeactivateDone(e, o)
    \/ SendToUserReturn
    \/ PushTestDone
    \/ \E e \in Endpoints : SavePushSubscription(e)

SpecPush == InitPush /\ [][NextPush]_vars

\* SpecDay: one reminder row and the 1440 ticks of one UTC day, one per
\* minute, each finished before the next; every read of the store succeeds.
TicksPerDay == 24 * 60
DayStart == Midnight
TickInstant(k) == DayStart + (k - 1) * MinuteMs

DayRowPool ==
    { Row("u2", "roomD", 15, "UTC"),
      Row("u2", "roomM", 0, "UTC"),
      Row("u2", "roomM", 15, "UTC"),
      Row("u2", "roomE", 15, "Asia/Kolkata"),
      Row("u3", "roomM", 15, "Asia/Kolkata") }

InitDay == InitWith({ <<r>> : r \in DayRowPool }, ServerZones)

NextDay ==
    \/ TickStart(TicksPerDay)
    \/ TickFetched("ok", TickInstant(ticks))
    \/ TickAfterSend(clock)
    \/ \E o \in StoreOutcomes : TickInsertDone(o, clock)
    \/ \E o \in StoreOutcomes : SubsFetched(o)
    \/ \E e \in Endpoints, c \in StatusCodes : Delivered(e, c)
    \/ \E e \in Endpoints, o \in StoreOutcomes : DeactivateDone(e, o)
    \/ SendToUserReturn
    \/ ClearDailyLog(clock)

SpecDay == InitDay /\ [][NextDay]_vars

\* SpecTime: one tick over a list of rows that covers the cases of the time
\* resolution (zones with and without daylight saving, an absent and an
\* unknown zone, times of day with seconds, with fields that are not numbers
\* or out of range, rooms without opening time), at instants on both sides
\* of a date change in UTC, in New York and in Kolkata.
TimePoints ==
    { Midnight - 1,                       \* 23:59:59.999 UTC of day 0
      Midnight,
      DstStart + 30 * MinuteMs,           \* 07:30 UTC = 03:30 EDT
      DstStart + 90 * MinuteMs,           \* 08:30 UTC = 04:30 EDT
      Midnight + 18 * HourMs + 30 * MinuteMs }   \* 00:00 of day 2 in Kolkata

LaterTime(clk) == { t \in TimePoints : t >= clk }

TimeRowPool ==
    { Row("u2", "roomL", 0, "UTC"),
      Row("u3", "roomL", 0, "UTC"),
      Row("u2", "roomS", 1, "UTC"),
      Row("u2", "roomX", 0, "UTC"),
      Row("u2", "roomH", 0, "UTC"),
      Row("u2", "roomA", 1, "Nowhere/Place"),
      Row("u2", "roomA", 1, ""),
      Row("u2", "roomY", 0, "America/New_York"),
      Row("u3", "roomA", 1, "Asia/Kolkata"),
      Row("u2", "roomN", 1, "UTC"),
      Row("u3", "roomGone", 0, "Asia/Kolkata") }

InitTime ==
    InitBase(SeqsUpTo(TimeRowPool, MaxRows), ServerZones, {TRUE}, Midnight - 1)

NextTime ==
    \/ TickStart(MaxTimeTicks)
    \/ \E t \in LaterTime(clock) : TickFetched("ok", t)
    \/ \E t \in LaterTime(clock) : TickAfterSend(t)
    \/ \E o \in StoreOutcomes, t \in LaterTime(clock) : TickInsertDone(o, t)
    \/ \E o \in StoreOutcomes : SubsFetched(o)
    \/ \E e \in Endpoints, c \in StatusCodes : Delivered(e, c)
    \/ \E e \in Endpoints, o \in StoreOutcomes : DeactivateDone(e, o)
    \/ SendToUserReturn

SpecTime == InitTime /\ [][NextTime]_vars

\* SpecOff: the process with and without VAPID keys: the cron jobs, the test
\* route and the dispatcher over one reminder row.
InitOff ==
    InitBase({ <<Row("u2", "roomA", 0, "UTC")>> }, {"UTC"}, BOOLEAN, ClockStart)

NextOff ==
    \/ TickStart(MaxTicks)
    \/ \E o \in StoreOutcomes, t \in Later(clock) : TickFetched(o, t)
    \/ \E t \in Later(clock) : TickAfterSend(t)
    \/ \E o \in StoreOutcomes, t \in Later(clock) : TickInsertDone(o, t)
    \/ \E o \in StoreOutcomes : SubsFetched(o)
    \/ \E e \in Endpoints, c \in StatusCodes : Delivered(e, c)
    \/ \E e \in Endpoints, o \in StoreOutcomes : DeactivateDone(e, o)
    \/ SendToUserReturn
    \/ \E t \in Later(clock) : ClearDailyLog(t)
    \/ \E u \in Users : PushTestStart(u)
    \/ PushTestDone

SpecOff == InitOff /\ [][NextOff]_vars

\* SpecRestart: one reminder row, up to three ticks inside and after its
\* window, the daily reset, and a restart of the process at any moment.
InitRestart ==
    InitWith({ <<Row("u2", "roomA", 1, "UTC")>>,
               <<Row("u3", "roomK", 1, "Asia/Kolkata")>> }, {"UTC"})

NextRestart ==
    \/ TickStart(MaxRestartTicks)
    \/ \E o \in StoreOutcomes, t \in Later(clock) : TickFetched(o, t)
    \/ \E t \in Later(clock) : TickAfterSend(t)
    \/ \E o \in StoreOutcomes, t \in Later(clock) : TickInsertDone(o, t)
    \/ \E o \in StoreOutcomes : SubsFetched(o)
    \/ \E e \in Endpoints, c \in StatusCodes : Delivered(e, c)
    \/ \E e \in Endpoints, o \in StoreOutcomes : DeactivateDone(e, o)
    \/ SendToUserReturn
    \/ \E t \in Later(clock) : ClearDailyLog(t)
    \/ Restart

SpecRestart == InitRestart /\ [][NextRestart]_vars

\* SpecOverlap: one reminder row and two ticks, the second of which may start
\* while the first is suspended at any of its awaits.
InitOverlap == InitWith({ <<Row("u2", "roomA", 1, "UTC")>> }, {"UTC"})

NextOverlap ==
    \/ TickStart(MaxTicks)
    \/ SwitchTick
    \/ \E o \in StoreOutcomes, t \in Later(clock) : TickFetched(o, t)
    \/ \E t \in Later(clock) : TickAfterSend(t)
    \/ \E o \in StoreOutcomes, t \in Later(clock) : TickInsertDone(o, t)
    \/ \E o \in StoreOutcomes : SubsFetched(o)
    \/ \E e \in Endpoints, c \in StatusCodes : Delivered(e, c)
    \/ \E e \in Endpoints, o \in StoreOutcomes : DeactivateDone(e, o)
    \/ SendToUserReturn

SpecOverlap == InitOverlap /\ [][NextOverlap]_vars

\* SpecBatch: one sendToUsers call over an empty list, one user, one full
\* batch, or a full batch and one more, with and without VAPID keys.
UserIdLists ==
    { [k \in 1 .. n |-> k] : n \in {0, 1, BatchSize, MaxBatchUsers} }

InitBatch == InitBase({ << >> }, {"UTC"}, BOOLEAN, ClockStart)

NextBatch ==
    \/ \E userIds \in UserIdLists : SendToUsersStart(userIds)
    \/ \E k \in 1 .. MaxBatchUsers :
           \E o \in CallOutcomes(k) : BatchCallSettles(k, o)
    \/ BatchSettled

SpecBatch == InitBatch /\ [][NextBatch]_vars

\* SpecSet: setForRoom calls, one after the other, over two users and two
\* rooms; each store call succeeds or returns an error.
InitSet == InitWith({ << >> }, {"UTC"})

NextSet ==
    \/ \E k \in ReminderKeys, m \in MinuteLists : SetForRoomStart(k[1], k[2], m)
    \/ \E o \in StoreOutcomes : SetDeleteDone(o)
    \/ \E o \in StoreOutcomes : SetInsertDone(o)

SpecSet == InitSet /\ [][NextSet]_vars

\* ------------------------------------------------------------ the claims
IsPrefix(a, b) == Len(a) <= Len(b) /\ SubSeq(b, 1, Len(a)) = a

AttemptIdx == 1 .. Len(attempts)
RecordIdx == 1 .. Len(notifications)

KeyOfEval(r) == DedupKey(r.row, TodayStr(r.now))

\* statuses the claims call Gone, and the success status
GoneCodes == {404, 410}
Gone(p) == { e \in p.subs : p.status[e] \in GoneCodes }
Succeeded(p) == { e \in p.subs : p.status[e] = 201 }
Transient(p) == { e \in p.subs : p.status[e] \notin GoneCodes \cup {0, 201} }

\* C1: with ticks that run one after the other and no clearDailyLog in
\* between, sendRoomReminder is invoked at most once per firing key
\* (user_id, room_id, minutes_before, UTC date of the tick): two calls with
\* the same key are separated by a ledger reset.
C1_AtMostOncePerKey ==
    \A i, j \in AttemptIdx :
        (i < j /\ attempts[i].key = attempts[j].key)
            => attempts[i].epoch # attempts[j].epoch

\* two ticks in the same 60-second window over a list that holds the same
\* row twice, no reset, and one call only
C1_Witness ==
    /\ fetches = <<"ok", "ok">>
    /\ tick.pc = "idle"
    /\ epoch = 0
    /\ Len(reminders) = 2
    /\ reminders[1] = reminders[2]
    /\ Len(attempts) = 1
    /\ \E r \in evals : /\ r.ev.inWindow
                        /\ r.now # attempts[1].now
                        /\ KeyOfEval(r) = attempts[1].key

\* C3: a row with an opening time passes the window test iff
\* now - (roomOpens - minutes_before minutes) lies in [0 s, 60 s).
C3_WindowHalfOpen ==
    \A r \in evals :
        ~r.ev.skipped =>
            LET target == r.ev.roomOpens - r.row.minutes_before * MinuteMs
            IN r.ev.inWindow <=> (target <= r.now /\ r.now < target + 60 * SecondMs)

\* one tick that sees a row exactly 60 s after its target (not due) and a
\* row exactly at its target (due)
C3_Witness ==
    \E a, b \in evals :
        /\ ~a.ev.skipped /\ a.ev.diffMs = 60 * SecondMs /\ ~a.ev.inWindow
        /\ ~b.ev.skipped /\ b.ev.diffMs = 0 /\ b.ev.inWindow

\* C4: once a sendRoomReminder call has settled, whatever it returned or
\* raised, its key is in the ledger until the next reset, and no later tick
\* calls sendRoomReminder for that key before that reset.
C4_MarkFiredOnAnyOutcome ==
    \A i \in AttemptIdx :
        attempts[i].done =>
            /\ attempts[i].doneEpoch = epoch => attempts[i].key \in firedToday
            /\ \A j \in AttemptIdx :
                 (i < j /\ attempts[j].key = attempts[i].key)
                     => attempts[j].epoch > attempts[i].doneEpoch

\* a call that raised, then a second tick in the same window that finds the
\* row due and does not call again
C4_Witness ==
    /\ fetches = <<"ok", "ok">>
    /\ tick.pc = "idle"
    /\ epoch = 0
    /\ Len(attempts) = 1
    /\ attempts[1].raised
    /\ \E r \in evals : /\ r.ev.inWindow
                        /\ r.now # attempts[1].now
                        /\ KeyOfEval(r) = attempts[1].key

\* ---- sendToUser, under SpecPush
Returned == push.pc = "returned"

CountsMatch(p) ==
    /\ p.sent = Cardinality(Succeeded(p))
    /\ p.failed = Cardinality(Gone(p)) + Cardinality(Transient(p))

\* C5 as amended: sendToUser returns sent = number of successes and failed =
\* number of Gone + number of Transient, and after the call an endpoint it
\* fetched, and that no client registered again meanwhile, is inactive iff it
\* reported Gone and its deactivation write did not fail.
C5_OutcomeClassification ==
    (Returned /\ push.subs # {}) =>
        /\ CountsMatch(push)
        /\ \A e \in push.subs \ push.resaved :
             ~active[e] <=> (e \in Gone(push) /\ e \notin push.writeFailed)

\* C5 as stated: after the call exactly the endpoints that reported Gone are
\* inactive.
C5_Original ==
    (Returned /\ push.subs # {}) =>
        /\ CountsMatch(push)
        /\ \A e \in push.subs : ~active[e] <=> e \in Gone(push)

\* a call over two endpoints that both report Gone: one is deactivated, the
\* write for the other fails and it stays active
C5_Witness ==
    /\ Returned
    /\ push.resaved = {}
    /\ \E e, f \in push.subs :
         /\ e \in Gone(push) /\ e \notin push.writeFailed /\ ~active[e]
         /\ f \in Gone(push) /\ f \in push.writeFailed /\ active[f]

\* C6: in one sendToUser call every endpoint fetched gets exactly one
\* transport call, whatever happened to the others, each of these calls has
\* settled when sendToUser returns, and no other endpoint is contacted.
C6_IndependentFanOut ==
    (push.pc \in {"delivering", "returned"}) =>
        /\ \A e \in Endpoints :
             push.contacted[e] = IF e \in push.subs THEN 1 ELSE 0
        /\ \A e \in Endpoints \ push.subs : push.status[e] = 0
        /\ Returned => \A e \in push.subs : push.status[e] # 0

\* two endpoints: one reports Gone and its deactivation write throws, the
\* other one is still delivered to
C6_Witness ==
    /\ Returned
    /\ \E e, f \in push.subs :
         /\ e \in Gone(push) /\ e \in push.rejected
         /\ f \in Succeeded(push)

\* C7: sendToUser does not raise because of endpoint failures or of a failed
\* deactivation write: a call that got its subscriptions returns normally.
C7_NeverRaisesOnEndpointFailure ==
    (Returned /\ push.subs # {}) => ~push.raised

\* every endpoint failed and a deactivation write threw; the call returned
C7_Witness ==
    /\ Returned
    /\ ~push.raised
    /\ Cardinality(push.subs) = 2
    /\ push.sent = 0
    /\ push.failed = 2
    /\ push.rejected # {}

\* C8: an inactive endpoint becomes active again only by savePushSubscription,
\* and sendToUser makes a transport call only to endpoints that are active in
\* the store when it reads its subscriptions.
C8_DeactivationSticky ==
    [][\A e \in Endpoints :
          /\ (~active[e] /\ active'[e]) => saves' = saves + 1
          /\ push'.contacted[e] > push.contacted[e] => active[e]]_vars

\* a second call for the user of a deactivated endpoint, with no save in
\* between: it contacts the user's other endpoint only
C8_Witness ==
    /\ Returned
    /\ saves = 0
    /\ pushTests = 2
    /\ \E e, f \in Endpoints :
         /\ Owner(e) = push.user /\ ~active[e] /\ push.contacted[e] = 0
         /\ f \in push.subs /\ push.contacted[f] = 1

\* ---- notification records and read failures, under Spec
\* every record belongs to one settled sendRoomReminder call that reported
\* sent >= 1, and no two records belong to the same call
RecordsFollowDelivery ==
    /\ \A k \in RecordIdx :
         LET n == notifications[k].attempt
         IN /\ n \in AttemptIdx
            /\ notifications[k].type = "room_opening"
            /\ notifications[k].key = attempts[n].key
            /\ attempts[n].done /\ ~attempts[n].raised /\ attempts[n].sent >= 1
    /\ \A k, l \in RecordIdx :
         k < l => notifications[k].attempt # notifications[l].attempt

\* C9 as amended: the scheduler inserts a record only for a firing whose
\* delivery reported sent >= 1, so there are at most as many records as such
\* firings; with ticks that do not overlap, at most one record is inserted
\* per firing key between two resets of the ledger; and the scheduler never
\* updates or deletes a record.
C9_RecordOnlyAfterDelivery ==
    [][/\ RecordsFollowDelivery'
       /\ \A k, l \in 1 .. Len(notifications') :
            (k < l /\ notifications'[k].key = notifications'[l].key)
                => attempts'[notifications'[k].attempt].epoch
                     # attempts'[notifications'[l].attempt].epoch
       /\ IsPrefix(notifications, notifications')]_vars

\* C9 as stated: ... at most one record is inserted per firing key.
C9_Original ==
    [][/\ RecordsFollowDelivery'
       /\ \A k, l \in 1 .. Len(notifications') :
            k < l => notifications'[k].key # notifications'[l].key
       /\ IsPrefix(notifications, notifications')]_vars

\* a firing delivered and recorded, the ledger reset inside its window, and
\* the same firing delivered and recorded again
C9_Witness ==
    /\ Len(notifications) = 2
    /\ notifications[1].key = notifications[2].key
    /\ epoch = 1

\* every row a tick found inside its window has had a sendRoomReminder call
\* for its key
DueRowsAttempted ==
    \A r \in evals :
        r.ev.inWindow => \E i \in AttemptIdx : attempts[i].key = KeyOfEval(r)

\* C10: a tick whose reminder query fails (error or throw) ends there: no
\* sendRoomReminder call, no ledger insert, no record, no write to the store;
\* and the ticks after it attempt every row due at their own now.
C10_ReadFailureAbandonsTick ==
    [][/\ (/\ tick.pc = "fetching"
           /\ tick'.pc # "fetching"
           /\ fetches'[Len(fetches')] = "failed")
          => /\ tick' = IdleTick
             /\ UNCHANGED <<firedToday, notifications, attempts, active, push>>
       /\ DueRowsAttempted']_vars

\* a failed tick that changed nothing, then a tick that fired a due row
C10_Witness ==
    /\ fetches = <<"failed", "ok">>
    /\ tick.pc = "idle"
    /\ Len(attempts) >= 1
    /\ \A i \in AttemptIdx : attempts[i].done /\ attempts[i].now = clock
    /\ \E r \in evals : r.ev.inWindow /\ KeyOfEval(r) \in firedToday

\* ---- one full day, under SpecDay
DayOver ==
    /\ ticks = TicksPerDay
    /\ tick.pc = "idle"
    /\ fetches[Len(fetches)] = "ok"

\* time of day of instant t on the wall clock of `zone`
WallClock(zone, t) == (t + TzOffsetMs(zone, t)) % DayMs

\* time of day "HH:MM" minus `minutesBefore` minutes, on a 24-hour dial
Dial(timeStart, minutesBefore) ==
    (timeStart[1] * HourMs + timeStart[2] * MinuteMs - minutesBefore * MinuteMs)
        % DayMs

CallsFor(row) ==
    { i \in AttemptIdx :
        /\ attempts[i].key[1] = row.user_id
        /\ attempts[i].key[2] = row.room_id
        /\ attempts[i].key[3] = row.minutes_before }

\* C2: after the 1440 one-minute ticks of a day, every enabled reminder whose
\* room has an opening time has had exactly one sendRoomReminder call, made
\* at the tick of opening time minus minutes_before.
C2_ExactlyOncePerDay ==
    DayOver =>
        \A k \in 1 .. Len(reminders) :
            LET row == reminders[k]
            IN RoomTimeStart(row.room_id) # << >> =>
                 /\ Cardinality(CallsFor(row)) = 1
                 /\ \A i \in CallsFor(row) :
                      WallClock(UserTz(row), attempts[i].now)
                        = Dial(RoomTimeStart(row.room_id), row.minutes_before)

\* ---- failures inside a tick
\* the last tick has ended and its query had succeeded
TickDone == tick.pc = "idle" /\ ticks >= 1 /\ fetches # << >>
              /\ fetches[Len(fetches)] = "ok"

\* a sendRoomReminder call of the tick of `now` that failed: the dispatch
\* raised, or the insert of its record returned an error or raised
FailedIn(now) ==
    { i \in AttemptIdx :
        /\ attempts[i].now = now
        /\ attempts[i].done
        /\ attempts[i].raised \/ attempts[i].insert \in {"error", "throws"} }

C12_InsertFailureKeepsDedup ==
    \A i \in AttemptIdx :
        (attempts[i].sent > 0 /\ attempts[i].insert \in {"error", "throws"}) =>
            /\ attempts[i].doneEpoch = epoch => attempts[i].key \in firedToday
            /\ \A k \in RecordIdx : notifications[k].attempt # i
            /\ \A j \in AttemptIdx :
                 (i < j /\ attempts[j].key = attempts[i].key)
                     => attempts[j].epoch > attempts[i].doneEpoch

\* C12 as stated: ... and sendRoomReminder is not called again for the key in
\* any later tick of that day.
C12_Original ==
    \A i \in AttemptIdx :
        (attempts[i].sent > 0 /\ attempts[i].insert \in {"error", "throws"}) =>
            /\ attempts[i].doneEpoch = epoch => attempts[i].key \in firedToday
            /\ \A k \in RecordIdx : notifications[k].attempt # i
            /\ \A j \in AttemptIdx :
                 i < j => attempts[j].key # attempts[i].key

\* a delivered firing whose insert raised, then a second tick in the same
\* window that finds the row due and neither sends nor records
C12_Witness ==
    /\ fetches = <<"ok", "ok">>
    /\ tick.pc = "idle"
    /\ epoch = 0
    /\ Len(attempts) = 1
    /\ attempts[1].sent > 0
    /\ attempts[1].insert = "throws"
    /\ notifications = << >>
    /\ \E r \in evals : /\ r.ev.inWindow
                        /\ r.now # attempts[1].now
                        /\ KeyOfEval(r) = attempts[1].key

\* ---- the process without VAPID keys, under SpecOff
\* a sendToUser call that returned { sent: 0, failed: 0 } at once: no store
\* read, no transport call, nothing raised
ReturnedEmpty(p) ==
    /\ p.pc = "returned"
    /\ p.sent = 0 /\ p.failed = 0
    /\ ~p.raised
    /\ p.subs = {}
    /\ \A e \in Endpoints : p.contacted[e] = 0

\* C13: with pushEnabled false neither cron job ever runs (no tick, no
\* reset, nothing sent, recorded or written), a call of
\* checkAndSendReminders returns before its query, and sendToUser and
\* sendToUsers return { sent: 0, failed: 0 } without store read or transport
\* call; no dispatcher call is running in the process.
C13_DisabledSubsystem ==
    ~pushEnabled =>
        /\ ticks = 0 /\ epoch = 0 /\ fetches = << >>
        /\ tick = IdleTick /\ push = IdlePush
        /\ attempts = << >> /\ notifications = << >> /\ firedToday = {}
        /\ \A e \in Endpoints : active[e]
        /\ CallCheckAndSendReminders(pushEnabled) = IdleTick
        /\ \A u \in Users : ReturnedEmpty(CallSendToUser(u, pushEnabled))
        /\ \A us \in SUBSET Users :
             LET q == CallSendToUsers(us, pushEnabled)
             IN q.returned /\ q.sent = 0 /\ q.failed = 0 /\ q.calls = {}

\* the process without keys after two requests to the test route
C13_Witness ==
    /\ ~pushEnabled
    /\ pushTests = MaxPushTests

\* ---- time resolution, under SpecTime
TimeOf(row) == RoomTimeStart(row.room_id)

\* a room that is joined and has an opening time
HasTime(row) == row.room_id \notin {"roomN", "roomGone"}

\* an opening time that reads as HH:MM or HH:MM:SS
WellFormed(ts) ==
    /\ Len(ts) \in {2, 3}
    /\ ts[1] \in 0 .. 23
    /\ ts[2] \in 0 .. 59
    /\ Len(ts) = 3 => ts[3] \in 0 .. 59

HoursMinutes(ts) == ts[1] * 60 * 60 * 1000 + ts[2] * 60 * 1000
Seconds(ts) == IF Len(ts) = 3 THEN ts[3] * 1000 ELSE 0

UnknownZone(row) == row.timezone \notin {"", "UTC", "Asia/Kolkata", "America/New_York"}

\* offset of the zones that have one offset all year, in ms
FixedOffset(zone) == IF zone = "Asia/Kolkata" THEN 330 * 60 * 1000 ELSE 0

\* 00:00 of the date that a clock `offset` ahead of UTC shows at instant t
LocalMidnight(t, offset) == ((t + offset) \div DayMs) * DayMs - offset

\* the window test of a row evaluated with opening instant `opens`
InWindowOf(r, opens) ==
    LET target == opens - r.row.minutes_before * 60 * 1000
    IN target <= r.now /\ r.now < target + 60 * 1000

\* C14: for a row whose zone is not an IANA zone parseTimeInTimezone does not
\* raise: it warns and returns hour:minute on the server's wall clock on the
\* server's current date; the row gets the normal window test and, if due,
\* its call; and the tick evaluates every row of the list.
C14_InvalidZoneDegrades ==
    /\ \A r \in evals :
         (UnknownZone(r.row) /\ HasTime(r.row) /\ WellFormed(TimeOf(r.row))) =>
             LET opens == LocalMidnight(r.ev.clk, FixedOffset(serverTz))
                            + HoursMinutes(TimeOf(r.row))
             IN /\ ~r.ev.skipped /\ ~r.ev.nan
                /\ r.ev.warned
                /\ r.ev.roomOpens = opens
                /\ r.ev.inWindow <=> InWindowOf(r, opens)
                /\ r.ev.inWindow =>
                     \E i \in AttemptIdx : attempts[i].key = KeyOfEval(r)
    /\ TickDone =>
         \A k \in 1 .. Len(reminders) : \E r \in evals : r.row = reminders[k]

\* a server in Kolkata: a row with an unknown zone was found due at 00:00
\* Kolkata time and sent, and the row after it was evaluated
C14_Witness ==
    /\ TickDone
    /\ serverTz = "Asia/Kolkata"
    /\ Len(reminders) = 2
    /\ UnknownZone(reminders[1])
    /\ reminders[2] # reminders[1]
    /\ \E r \in evals : r.row = reminders[1] /\ r.ev.warned /\ r.ev.inWindow
    /\ \E r \in evals : r.row = reminders[2]
    /\ Len(attempts) >= 1 /\ attempts[1].done

\* C15 as amended: a row without zone is resolved as a UTC wall-clock time
\* (and without warning); a row with an unknown zone is resolved as a
\* wall-clock time of the server's zone.
C15_ZoneDefault ==
    \A r \in evals :
        (HasTime(r.row) /\ WellFormed(TimeOf(r.row))) =>
            /\ r.row.timezone = "" =>
                 /\ ~r.ev.warned
                 /\ r.ev.roomOpens = LocalMidnight(r.ev.clk, 0)
                                        + HoursMinutes(TimeOf(r.row))
            /\ UnknownZone(r.row) =>
                 r.ev.roomOpens = LocalMidnight(r.ev.clk, FixedOffset(serverTz))
                                    + HoursMinutes(TimeOf(r.row))

\* C15 as stated: a row whose zone is absent or unknown is resolved as a UTC
\* wall-clock time.
C15_Original ==
    \A r \in evals :
        (HasTime(r.row) /\ WellFormed(TimeOf(r.row))
           /\ (r.row.timezone = "" \/ UnknownZone(r.row))) =>
            r.ev.roomOpens = LocalMidnight(r.ev.clk, 0) + HoursMinutes(TimeOf(r.row))

\* a server in Kolkata: a row without zone is due at its UTC time, and a row
\* with an unknown zone is resolved to another instant than its UTC time
C15_Witness ==
    /\ serverTz = "Asia/Kolkata"
    /\ \E r \in evals : r.row.timezone = "" /\ r.ev.inWindow
    /\ \E r \in evals :
         /\ UnknownZone(r.row)
         /\ r.ev.roomOpens # LocalMidnight(r.ev.clk, 0) + HoursMinutes(TimeOf(r.row))

\* C16: the instant resolved for a zone is the instant at which the zone's
\* wall clock shows the requested hour:minute on the zone's date of the
\* reference instant, also on the day the zone changes its offset.
C16_DstCorrect ==
    \A r \in evals :
        (r.row.timezone \in {"UTC", "Asia/Kolkata", "America/New_York"}
           /\ HasTime(r.row) /\ WellFormed(TimeOf(r.row))) =>
            /\ ~r.ev.skipped /\ ~r.ev.nan
            /\ r.ev.roomOpens + TzOffsetMs(r.row.timezone, r.ev.roomOpens)
                 = ((r.ev.clk + TzOffsetMs(r.row.timezone, r.ev.clk)) \div DayMs) * DayMs
                     + HoursMinutes(TimeOf(r.row))

\* C17: for a zone with one offset the resolved instant is 00:00 of the
\* zone's date of the reference instant, plus hours:minutes, minus the
\* offset, whatever the UTC date and the server's date are.
C17_DateInTargetZone ==
    \A r \in evals :
        (r.row.timezone \in {"UTC", "Asia/Kolkata"}
           /\ HasTime(r.row) /\ WellFormed(TimeOf(r.row))) =>
            /\ ~r.ev.skipped /\ ~r.ev.nan /\ ~r.ev.warned
            /\ r.ev.roomOpens = LocalMidnight(r.ev.clk, FixedOffset(r.row.timezone))
                                   + HoursMinutes(TimeOf(r.row))

\* a server in UTC at 18:30 UTC: it is the next day in Kolkata, and the row
\* of that zone is due for its 00:01 of that next day
C17_Witness ==
    \E r \in evals :
        /\ serverTz = "UTC"
        /\ r.row.timezone = "Asia/Kolkata"
        /\ (r.ev.clk + FixedOffset("Asia/Kolkata")) \div DayMs = r.ev.clk \div DayMs + 1
        /\ r.ev.inWindow
        /\ \E i \in AttemptIdx : attempts[i].key = KeyOfEval(r)

\* C18: a row whose room is missing or has no time_start leaves the loop at
\* once, whatever now, minutes_before and zone are: no sendRoomReminder
\* call, no key in the ledger and no record come from it.
C18_NoTimeNeverDispatched ==
    \A k \in 1 .. Len(reminders) :
        LET row == reminders[k]
        IN ~HasTime(row) =>
             /\ \A r \in evals : r.row = row => r.ev.skipped /\ ~r.ev.inWindow
             /\ CallsFor(row) = {}
             /\ \A key \in firedToday :
                  ~(key[1] = row.user_id /\ key[2] = row.room_id
                      /\ key[3] = row.minutes_before)
             /\ \A n \in RecordIdx :
                  ~(notifications[n].user_id = row.user_id
                      /\ notifications[n].roomId = row.room_id)

\* a finished tick over a row without room and a row that was due and sent
C18_Witness ==
    /\ TickDone
    /\ Len(reminders) = 2
    /\ ~HasTime(reminders[1])
    /\ \E r \in evals : r.row = reminders[1] /\ r.ev.skipped
    /\ Len(attempts) = 1
    /\ attempts[1].done
    /\ attempts[1].key[2] = reminders[2].room_id

\* C19: a row whose opening time does not read as HH:MM[:SS] is never due.
C19_UnparsableExcluded ==
    \A r \in evals :
        (HasTime(r.row) /\ ~WellFormed(TimeOf(r.row))) => ~r.ev.inWindow

\* C20: the seconds of the opening time count: the row is due iff now lies
\* in [T - m, T - m + 60 s) with T = HH:MM:SS.
C20_SecondsHonoured ==
    \A r \in evals :
        (r.row.timezone \in {"UTC", "Asia/Kolkata"}
           /\ HasTime(r.row) /\ WellFormed(TimeOf(r.row))
           /\ Seconds(TimeOf(r.row)) # 0) =>
            LET opens == LocalMidnight(r.ev.clk, FixedOffset(r.row.timezone))
                           + HoursMinutes(TimeOf(r.row)) + Seconds(TimeOf(r.row))
            IN /\ r.ev.roomOpens = opens
               /\ r.ev.inWindow <=> InWindowOf(r, opens)

\* C21: every opening instant of a tick is resolved against the now of the
\* tick: what an iteration computes is what it computes when the clock is
\* read at now, however long the awaits before it took.
C21_OneReferenceInstant ==
    \A r \in evals :
        LET atNow == RowEval(r.row, r.now, r.now, serverTz)
        IN /\ r.ev.roomOpens = atNow.roomOpens
           /\ r.ev.inWindow = atNow.inWindow

\* ---- the daily reset, under Spec
\* C22: a step of clearDailyLog leaves the ledger empty, so that every key
\* marked before is reported as not fired, and changes neither the store
\* nor a running tick or dispatch.
C22_LedgerReset ==
    [][epoch' = epoch + 1 =>
         /\ firedToday' = {}
         /\ \A key \in firedToday : ~AlreadyFired(firedToday', key)
         /\ UNCHANGED <<reminders, active, notifications, tick, push,
                        attempts, evals, pushEnabled>>]_vars

\* a key was marked, then the reset ran: the ledger is empty
C22_Witness ==
    /\ epoch = 1
    /\ firedToday = {}
    /\ \E i \in AttemptIdx : attempts[i].done /\ attempts[i].doneEpoch = 0

\* ---- a restart, under SpecRestart
AttemptsOf(key) == { i \in AttemptIdx : attempts[i].key = key }

AttemptKeys == { attempts[i].key : i \in AttemptIdx }

\* all calls for one key are made by ticks whose now lies in one window of
\* 60 seconds
SameWindow ==
    \A i, j \in AttemptIdx :
        attempts[i].key = attempts[j].key
            => attempts[i].now - attempts[j].now < 60 * 1000

\* C23 as amended: the ledger is lost by a restart and emptied by
\* clearDailyLog; two sendRoomReminder calls for one key are always
\* separated by one of the two, so that with one restart and no reset in
\* between a key gets at most two calls (and one more per reset); and every
\* further call is made by a tick whose now lies in the same 60-second
\* window as the first.
C23_RestartDuplicates ==
    /\ \A i, j \in AttemptIdx :
         (i < j /\ attempts[i].key = attempts[j].key)
             => (attempts[i].boot # attempts[j].boot
                   \/ attempts[i].epoch # attempts[j].epoch)
    /\ \A key \in AttemptKeys :
         Cardinality(AttemptsOf(key)) <= 1 + restarts + epoch
    /\ SameWindow

\* C23 as stated: with one restart in the day every key gets at most two
\* calls in total.
C23_Original ==
    /\ restarts <= 1 =>
         \A key \in AttemptKeys : Cardinality(AttemptsOf(key)) <= 2
    /\ SameWindow

\* a firing sent, the process restarted inside the firing's window, and the
\* firing sent a second time by the next tick; no reset
C23_Witness ==
    /\ restarts = 1
    /\ epoch = 0
    /\ Len(attempts) = 2
    /\ attempts[1].key = attempts[2].key
    /\ attempts[1].done /\ attempts[1].boot = 0
    /\ attempts[2].done /\ attempts[2].boot = 1

\* ---- the payload of sendRoomReminder, under SpecTime
TagRooms == {"roomA", "roomL", "roomX"}
TagMinutes == {0, 1, 5, 10, 15, 51, 105, 150}

\* C24: the tag of the payload is determined by (room id, minutesBefore) and
\* determines them: calls for the same room and offset carry the same tag,
\* whatever the user and the day, and calls for another room or another
\* offset carry another tag.
C24_TagPerRoomAndOffset ==
    /\ \A i, j \in AttemptIdx :
         attempts[i].tag = attempts[j].tag
             <=> (attempts[i].key[2] = attempts[j].key[2]
                    /\ attempts[i].key[3] = attempts[j].key[3])
    /\ \A r1, r2 \in TagRooms, m1, m2 \in TagMinutes :
         RoomReminderTag(r1, m1) = RoomReminderTag(r2, m2)
             <=> (r1 = r2 /\ m1 = m2)

\* one tick sent the reminder of one room and offset to two users: one tag
C24_Witness ==
    /\ Len(attempts) = 2
    /\ attempts[1].key[1] # attempts[2].key[1]
    /\ attempts[1].key[2] = attempts[2].key[2]
    /\ attempts[1].key[3] = attempts[2].key[3]
    /\ attempts[1].tag = attempts[2].tag

\* ---- two ticks at once, under SpecOverlap
\* C25: when a tick starts while the tick before it is suspended at an
\* await, no firing key gets more than one sendRoomReminder call, however
\* the two ticks interleave.
C25_OverlapNoDoubleDelivery ==
    \A key \in AttemptKeys : Cardinality(AttemptsOf(key)) <= 1

C28_CountConservation ==
    (Returned /\ ~push.raised) =>
        /\ push.sent + push.failed = Cardinality(push.subs)
        /\ push.subs = {} =>
             /\ push.sent = 0 /\ push.failed = 0
             /\ \A e \in Endpoints : push.contacted[e] = 0 /\ push.status[e] = 0

\* a call over two endpoints, one delivered and one Gone; the call before
\* it (or a registration) is not needed
C28_Witness ==
    /\ Returned
    /\ Cardinality(push.subs) = 2
    /\ push.sent = 1
    /\ push.failed = 1
    /\ Gone(push) # {}

\* C29: an endpoint registered again by savePushSubscription while a
\* sendToUser call that had fetched it was running stays active: a delivery
\* started before the registration does not deactivate it.
C29_FreshSubscriptionSurvives ==
    \A e \in push.resaved : active[e]

\* ---- sendToUsers, under SpecBatch
InFlight == { k \in DOMAIN batch.calls : batch.calls[k].st = "inflight" }

Settled(k) == batch.calls[k].st \in {"fulfilled", "rejected"}

BatchOf(k) == (k - 1) \div BatchSize

FulfilledCalls == { k \in DOMAIN batch.calls : batch.calls[k].st = "fulfilled" }

RECURSIVE SentOver(_)
SentOver(S) ==
    IF S = {} THEN 0
    ELSE LET k == CHOOSE y \in S : TRUE
         IN  batch.calls[k].sent + SentOver(S \ {k})

RECURSIVE FailedOver(_)
FailedOver(S) ==
    IF S = {} THEN 0
    ELSE LET k == CHOOSE y \in S : TRUE
         IN  batch.calls[k].failed + FailedOver(S \ {k})

BatchBounded ==
    /\ Cardinality(InFlight) <= BatchSize
    /\ \A k \in DOMAIN batch.calls :
         batch.calls[k].n > 0 =>
             \A j \in DOMAIN batch.calls : BatchOf(j) < BatchOf(k) => Settled(j)
    /\ \A k \in DOMAIN batch.calls : batch.calls[k].n <= 1

BatchTotals ==
    batch.pc = "returned" =>
        /\ ~batch.raised
        /\ batch.totalSent = SentOver(FulfilledCalls)
        /\ batch.totalFailed = FailedOver(FulfilledCalls)

\* C27 as amended: with push enabled, at most 10 sendToUser calls of a
\* sendToUsers call are in flight, a batch starts after every call of the
\* batches before it has settled, a sendToUsers call that has returned has
\* made exactly one call per position of userIds, and its totals are the sums
\* over the fulfilled calls; it never raises.  With push disabled it returns
\* { sent: 0, failed: 0 } without any sendToUser call.
C27_BoundedBatches ==
    /\ BatchBounded
    /\ BatchTotals
    /\ batch.pc = "returned" =>
         \A k \in DOMAIN batch.calls :
             batch.calls[k].n = (IF pushEnabled THEN 1 ELSE 0)

\* C27 as stated: every user id of the list gets exactly one sendToUser
\* call, whatever the configuration.
C27_Original ==
    /\ BatchBounded
    /\ BatchTotals
    /\ batch.pc = "returned" =>
         \A k \in DOMAIN batch.calls : batch.calls[k].n = 1

\* a call over eleven users has returned: ten calls in the first batch, of
\* which one rejected, one in the second, and totals that are not zero
C27_Witness ==
    /\ batch.pc = "returned"
    /\ Len(batch.userIds) = MaxBatchUsers
    /\ batch.i > BatchSize
    /\ \E k \in DOMAIN batch.calls : batch.calls[k].st = "rejected"
    /\ batch.totalSent > 0
    /\ batch.totalFailed > 0

\* ---- setForRoom, under SpecSet
SetKey == <<setOp.user, setOp.room>>

\* C30: after setForRoom(user, room, M) has returned the rows of (user, room)
\* are one per element of M and the rows of every other pair are as before
\* the call; after it has raised the rows of (user, room) are as before.
C30_SetForRoomAllOrNothing ==
    /\ setOp.pc = "returned" =>
         /\ stored[SetKey] = setOp.minutesBefore
         /\ \A k \in ReminderKeys \ {SetKey} : stored[k] = setOp.before[k]
    /\ setOp.pc = "raised" => stored[SetKey] = setOp.before[SetKey]

====
